---- MODULE Spec2Model ----
(***************************************************************************)
(* 5chUtils: the thread-URL to dat-URL deriver, the dat parser, the        *)
(* HTML-to-post parser with its tag normalisation, the dat serialiser and  *)
(* the page's handlers (src/unnamed/part_000, the full page variant).      *)
(*                                                                         *)
(* Text is modelled character by character: a JavaScript string is a TLA+  *)
(* string, indexed from 1, and every regular expression of the source is   *)
(* written out as the scan it performs.                                    *)
(***************************************************************************)
EXTENDS Integers, Sequences, FiniteSets, TLC

VARIABLES
    threadUrl,      \* useState('')      thread URL text box
    datUrl,         \* useState('')      derived dat URL
    posts,          \* useState([])      displayed posts
    error,          \* useState('')      displayed error message
    isDatOchi,      \* useState(false)   "archived thread" check box
    htmlUrl,        \* useState('')      archive page URL text box
    isConverting,   \* useState(false)   HTML conversion in progress
    datFetches,     \* handleDownload calls awaiting fetch(datUrl): the URL each one captured
    htmlFetch,      \* the handleHtmlConvert call awaiting a fetch: its stage and captured URL
    fileReads,      \* handleFileUpload calls awaiting file.arrayBuffer(): their files
    effect,         \* what the latest step asked of the browser: a file save, a new tab
    results,        \* what the page's functions return on the inputs the page is given
    call            \* the last call of a pure function: its arguments and result

pageVars == <<threadUrl, datUrl, posts, error, isDatOchi, htmlUrl, isConverting,
              datFetches, htmlFetch, fileReads, effect, results>>
vars == <<threadUrl, datUrl, posts, error, isDatOchi, htmlUrl, isConverting,
          datFetches, htmlFetch, fileReads, effect, results, call>>

(***************************************************************************)
(* Strings                                                                 *)
(***************************************************************************)
\* F(v), with v evaluated a single time however often F refers to it: the binding of a
\* local const of the source
Once(v, F(_)) == CHOOSE r \in {F(x) : x \in {v}} : TRUE

Min(S) == Once(S, LAMBDA T : CHOOSE x \in T : \A y \in T : x <= y)
Max(S) == Once(S, LAMBDA T : CHOOSE x \in T : \A y \in T : x >= y)

\* the least element of a set of positions, 0 for the empty set
First(S) == Once(S, LAMBDA T : IF T = {} THEN 0 ELSE Min(T))

\* s[i-1] of the source (1-based here); "" past either end
Ch(s, i) == IF i >= 1 /\ i <= Len(s) THEN SubSeq(s, i, i) ELSE ""

\* the literal lit stands in s at position i
MatchAt(s, i, lit) ==
    /\ i >= 1
    /\ i + Len(lit) - 1 <= Len(s)
    /\ SubSeq(s, i, i + Len(lit) - 1) = lit

\* String.prototype.indexOf(lit, from), 1-based; 0 when absent
IndexOf(s, lit, from) == First({i \in from..(Len(s) - Len(lit) + 1) : MatchAt(s, i, lit)})

\* the end of the longest run of characters of the class starting at i; i-1 when the
\* character at i is not of the class
RunEnd(s, i, class) ==
    Min({j \in i..(Len(s) + 1) : j > Len(s) \/ Ch(s, j) \notin class}) - 1

\* the same for the characters outside the class
RunEndNot(s, i, class) ==
    Min({j \in i..(Len(s) + 1) : j > Len(s) \/ Ch(s, j) \in class}) - 1

\* String.prototype.substring(0, n)
Substring0(s, n) == SubSeq(s, 1, IF n < Len(s) THEN n ELSE Len(s))

Digit == {"0", "1", "2", "3", "4", "5", "6", "7", "8", "9"}

\* the end of the longest run of digits starting at i (i-1 when there is none): \d+ or \d*
DigitRunEnd(s, i) == RunEnd(s, i, Digit)

(***************************************************************************)
(* convertToDatUrl                                                         *)
(***************************************************************************)
\* the null of "string | null"
Null == [isNull |-> TRUE, val |-> ""]
Some(s) == [isNull |-> FALSE, val |-> s]

MinThreadIdLen == 5
First4Len == 4
First5Len == 5

\* url.match(/https?:\/\/([^\/]+)\.([^\/]+)\/test\/read\.cgi\/([^\/]+)\/(\d+)/) tried at
\* position i. "https?" takes the s when it is there.  ([^\/]+)\.([^\/]+)\/ spans the text
\* up to the next "/": the first group is greedy, so it ends at the LAST dot that leaves
\* both groups non-empty.  The third group runs to the next "/", the fourth is the longest
\* run of digits.
UrlMatchAt(url, i) ==
    LET NoMatch == [matched |-> FALSE, server |-> "", domain |-> "", board |-> "", threadId |-> ""]
        k == IF Ch(url, i + 4) = "s" THEN i + 5 ELSE i + 4
        h == k + 3
    IN  IF MatchAt(url, i, "http") /\ MatchAt(url, k, "://")
        THEN Once(IndexOf(url, "/", h), LAMBDA slash :
             Once({d \in (h + 1)..(slash - 2) : Ch(url, d) = "."}, LAMBDA dots :
             Once(IndexOf(url, "/", slash + 15), LAMBDA bEnd :
             Once(DigitRunEnd(url, bEnd + 1), LAMBDA tEnd :
                 IF /\ slash > 0
                    /\ dots # {}
                    /\ MatchAt(url, slash, "/test/read.cgi/")
                    /\ bEnd > slash + 15
                    /\ tEnd > bEnd
                 THEN [matched  |-> TRUE,
                       server   |-> SubSeq(url, h, Max(dots) - 1),
                       domain   |-> SubSeq(url, Max(dots) + 1, slash - 1),
                       board    |-> SubSeq(url, slash + 15, bEnd - 1),
                       threadId |-> SubSeq(url, bEnd + 1, tEnd)]
                 ELSE NoMatch))))
        ELSE NoMatch

\* String.prototype.match without the g flag: the leftmost position that matches
UrlMatch(url) ==
    Once(url, LAMBDA u :
        Once(First({i \in 1..Len(u) : UrlMatchAt(u, i).matched}), LAMBDA at : UrlMatchAt(u, at)))

convertToDatUrl_NoLengthCheck(url, datOchi) ==
    Once(UrlMatch(url), LAMBDA m :
        IF ~m.matched THEN Null
        ELSE IF datOchi
        THEN Some("https://" \o m.server \o "." \o m.domain \o "/" \o m.board \o "/kako/"
                  \o Substring0(m.threadId, First4Len) \o "/"
                  \o Substring0(m.threadId, First5Len) \o "/" \o m.threadId \o ".dat")
        ELSE Some("https://" \o m.server \o "." \o m.domain \o "/" \o m.board \o "/dat/"
                  \o m.threadId \o ".dat"))

convertToDatUrl_DropsServer(url, datOchi) ==
    Once(UrlMatch(url), LAMBDA m :
        IF ~m.matched \/ Len(m.threadId) < MinThreadIdLen THEN Null
        ELSE Some("https://" \o m.domain \o "/" \o m.board \o "/dat/" \o m.threadId \o ".dat"))

convertToDatUrl(url, datOchi) ==
    Once(UrlMatch(url), LAMBDA m :
        LET first4 == Substring0(m.threadId, First4Len)
            first5 == Substring0(m.threadId, First5Len)
        IN  IF ~m.matched THEN Null
            ELSE IF Len(m.threadId) < MinThreadIdLen THEN Null
            ELSE IF datOchi
            THEN IF m.domain = "5ch.net" \/ m.domain = "bbspink.com"
                 THEN Some("https://" \o m.server \o "." \o m.domain \o "/" \o m.board
                           \o "/oyster/" \o first4 \o "/" \o m.threadId \o ".dat")
                 ELSE Some("https://" \o m.server \o "." \o m.domain \o "/" \o m.board
                           \o "/kako/" \o first4 \o "/" \o first5 \o "/" \o m.threadId
                           \o ".dat")
            ELSE Some("https://" \o m.server \o "." \o m.domain \o "/" \o m.board \o "/dat/"
                      \o m.threadId \o ".dat"))

(***************************************************************************)
(* parseDatFile                                                            *)
(***************************************************************************)
\* what \s and String.prototype.trim treat as white space (the ASCII part)
WhiteSpace == {" ", "\t", "\n", "\r", "\f"}

\* String.prototype.trim
Trim(s) ==
    Once(s, LAMBDA t :
        Once({i \in 1..Len(t) : Ch(t, i) \notin WhiteSpace}, LAMBDA S :
            IF S = {} THEN "" ELSE SubSeq(t, Min(S), Max(S))))

\* String.prototype.split(sep) for a non-empty separator
RECURSIVE Split(_, _)
Split(s, sep) ==
    Once(s, LAMBDA t :
        Once(IndexOf(t, sep, 1), LAMBDA i :
            IF i = 0 THEN <<t>>
            ELSE <<SubSeq(t, 1, i - 1)>> \o Split(SubSeq(t, i + Len(sep), Len(t)), sep)))

\* the end of the longest run of non-white-space characters starting at i: [^\s]+
NonSpaceRunEnd(s, i) == RunEndNot(s, i, WhiteSpace)

\* dateAndId.match(/ID:([^\s]+)/): the leftmost "ID:" followed by a non-white-space
\* character, and the end of the run that follows it; from = 0 when there is none
IdMatch(dateAndId) ==
    LET S == {i \in 1..Len(dateAndId) :
                 MatchAt(dateAndId, i, "ID:") /\ NonSpaceRunEnd(dateAndId, i + 3) >= i + 3}
    IN  IF S = {} THEN [from |-> 0, to |-> 0]
        ELSE [from |-> Min(S), to |-> NonSpaceRunEnd(dateAndId, Min(S) + 3)]

\* '名無しさん', written in ASCII
DefaultName == "nanashi-san"

MinDatFields == 4

Post(name, mail, date, id, message) ==
    [name |-> name, mail |-> mail, date |-> date, id |-> id, message |-> message]

\* ParseDatLine without the parts.length >= 4 test
ParseDatLine_AnyFieldCount(line) ==
    LET parts == Split(line, "<>") \o <<"", "", "">>
        m == IdMatch(parts[3])
    IN  <<Post(IF parts[1] = "" THEN DefaultName ELSE parts[1], parts[2],
               IF m.from = 0 THEN Trim(parts[3])
               ELSE Trim(SubSeq(parts[3], 1, m.from - 1)
                         \o SubSeq(parts[3], m.to + 1, Len(parts[3]))),
               IF m.from = 0 THEN "" ELSE SubSeq(parts[3], m.from + 3, m.to),
               parts[4])>>

\* ParseDatLine substituting the placeholder for a name that is empty after trimming
ParseDatLine_TrimsName(line) ==
    LET parts == Split(line, "<>")
        m == IdMatch(IF Len(parts) >= MinDatFields THEN parts[3] ELSE "")
    IN  IF Len(parts) >= MinDatFields
        THEN <<Post(IF Trim(parts[1]) = "" THEN DefaultName ELSE parts[1], parts[2],
                    IF m.from = 0 THEN Trim(parts[3])
                    ELSE Trim(SubSeq(parts[3], 1, m.from - 1)
                              \o SubSeq(parts[3], m.to + 1, Len(parts[3]))),
                    IF m.from = 0 THEN "" ELSE SubSeq(parts[3], m.from + 3, m.to),
                    parts[4])>>
        ELSE <<>>

\* the body of lines.forEach: the posts (none or one) a line contributes
ParseDatLine(line) ==
    LET parts == Split(line, "<>")
    IN  IF Len(parts) >= MinDatFields
        THEN LET name      == parts[1]
                 mail      == parts[2]
                 dateAndId == parts[3]
                 message   == parts[4]
                 idMatch   == IdMatch(dateAndId)
                 id   == IF idMatch.from = 0 THEN ""
                         ELSE SubSeq(dateAndId, idMatch.from + 3, idMatch.to)
                 date == IF idMatch.from = 0 THEN Trim(dateAndId)
                         ELSE Trim(SubSeq(dateAndId, 1, idMatch.from - 1)
                                   \o SubSeq(dateAndId, idMatch.to + 1, Len(dateAndId)))
             IN  <<Post(IF name = "" THEN DefaultName ELSE name, mail, date, id, message)>>
        ELSE <<>>

RECURSIVE ParseDatLines(_)
ParseDatLines(lines) ==
    Once(lines, LAMBDA ls :
        IF ls = <<>> THEN <<>> ELSE ParseDatLine(Head(ls)) \o ParseDatLines(Tail(ls)))

\* line => line.trim(), as the filter's test
NotBlank(line) == Trim(line) # ""

parseDatFile(content) == ParseDatLines(SelectSeq(Split(content, "\n"), NotBlank))

(***************************************************************************)
(* stripTagsKeepBrA                                                        *)
(***************************************************************************)
\* U+0000, the character of the placeholders, written as "^"
NUL == "^"

UpperCase == "ABCDEFGHIJKLMNOPQRSTUVWXYZ"
LowerCase == "abcdefghijklmnopqrstuvwxyz"

\* one character under the i flag
UpperChars == {Ch(UpperCase, k) : k \in 1..Len(UpperCase)}
LowerOf == [c \in UpperChars |->
                Ch(LowerCase, CHOOSE k \in 1..Len(UpperCase) : Ch(UpperCase, k) = c)]
LowerCh(c) == IF c \in UpperChars THEN LowerOf[c] ELSE c

\* the lower-case literal lit stands in s at position i, letter case ignored
MatchAtCI(s, i, lit) ==
    /\ i >= 1
    /\ i + Len(lit) - 1 <= Len(s)
    /\ \A k \in 1..Len(lit) : LowerCh(Ch(s, i + k - 1)) = Ch(lit, k)

IndexOfCI(s, lit, from) ==
    LET S == {i \in from..(Len(s) - Len(lit) + 1) : MatchAtCI(s, i, lit)}
    IN  IF S = {} THEN 0 ELSE Min(S)

\* \w, as \b reads it
WordChars == UpperChars \cup {LowerOf[c] : c \in UpperChars} \cup Digit \cup {"_"}
WordChar(c) == c \in WordChars

\* the position after the longest run of white space starting at i: \s*
SkipSpace(s, i) == RunEnd(s, i, WhiteSpace) + 1

\* [ \t\f\v]
HorizontalSpace == {" ", "\t", "\f"}

\* Where the match of one of the function's fixed patterns that starts at i ends; 0 when
\* the pattern does not match at i.
\*   wbr     /<\/?wbr\s*\/?>/gi        br      /<br\s*\/?>/gi       brToken /<br>/g
\*   tag     /<[^>]+>/g                cr      /\r/g                brMark  /\x00BR\x00/g
\*   hspace  /[ \t\f\v]+/g             brPad   / ?<br> ?/g
PatternEnd(pattern, s, i) ==
    CASE pattern = "wbr" ->
            LET w == IF Ch(s, i + 1) = "/" THEN i + 2 ELSE i + 1
                e == SkipSpace(s, w + 3)
                g == IF Ch(s, e) = "/" THEN e + 1 ELSE e
            IN  IF Ch(s, i) = "<" /\ MatchAtCI(s, w, "wbr") /\ Ch(s, g) = ">" THEN g ELSE 0
      [] pattern = "br" ->
            LET e == SkipSpace(s, i + 3)
                g == IF Ch(s, e) = "/" THEN e + 1 ELSE e
            IN  IF MatchAtCI(s, i, "<br") /\ Ch(s, g) = ">" THEN g ELSE 0
      [] pattern = "brToken" -> IF MatchAt(s, i, "<br>") THEN i + 3 ELSE 0
      [] pattern = "tag" ->
            IF Ch(s, i) = "<" /\ Ch(s, i + 1) \notin {">", ""} THEN IndexOf(s, ">", i + 2) ELSE 0
      [] pattern = "cr" -> IF Ch(s, i) = "\r" THEN i ELSE 0
      [] pattern = "brMark" ->
            IF MatchAt(s, i, NUL \o "BR" \o NUL) THEN i + 3 ELSE 0
      [] pattern = "hspace" ->
            IF Ch(s, i) \in HorizontalSpace THEN RunEnd(s, i, HorizontalSpace) ELSE 0
      [] pattern = "brPad" ->
            LET b == IF Ch(s, i) = " " THEN i + 1 ELSE i
            IN  IF MatchAt(s, b, "<br>") THEN (IF Ch(s, b + 4) = " " THEN b + 4 ELSE b + 3)
                ELSE 0

\* the second argument of each of those replace calls
PatternReplacement(pattern) ==
    CASE pattern \in {"wbr", "tag", "cr"} -> ""
      [] pattern \in {"br", "brMark", "brPad"} -> "<br>"
      [] pattern = "brToken" -> NUL \o "BR" \o NUL
      [] pattern = "hspace" -> " "

\* String.prototype.replace with a g-flagged pattern: left to right, matches do not overlap
RECURSIVE ReplaceAllFrom(_, _, _)
ReplaceAllFrom(pattern, s, i) ==
    Once(First({j \in i..Len(s) : PatternEnd(pattern, s, j) > 0}), LAMBDA m :
        IF m = 0 THEN SubSeq(s, i, Len(s))
        ELSE SubSeq(s, i, m - 1) \o PatternReplacement(pattern)
             \o Once(PatternEnd(pattern, s, m) + 1, LAMBDA next :
                     ReplaceAllFrom(pattern, s, next)))

ReplaceAll(pattern, s) == Once(s, LAMBDA t : ReplaceAllFrom(pattern, t, 1))

\* attrs.match(/\bhref="([^"]+)"/i): the captured value, "" when there is no match
HrefOf(attrs) ==
    Once(attrs, LAMBDA a :
        Once(First({k \in 1..Len(a) :
                       /\ MatchAtCI(a, k, "href=\"")
                       /\ ~WordChar(Ch(a, k - 1))
                       /\ IndexOf(a, "\"", k + 6) > k + 6}), LAMBDA m :
            IF m = 0 THEN "" ELSE SubSeq(a, m + 6, IndexOf(a, "\"", m + 6) - 1)))

\* /<a\b([^>]*?)>([\s\S]*?)<\/a>/gi tried at position i: the attributes run to the first
\* ">", the inner text to the first "</a>" after it
AnchorMatchAt(s, i) ==
    IF MatchAtCI(s, i, "<a") /\ ~WordChar(Ch(s, i + 2))
    THEN Once(IndexOf(s, ">", i + 2), LAMBDA g :
         Once(IF g > 0 THEN IndexOfCI(s, "</a>", g + 1) ELSE 0, LAMBDA c :
             IF c > 0
             THEN [end |-> c + 3, attrs |-> SubSeq(s, i + 2, g - 1),
                   inner |-> SubSeq(s, g + 1, c - 1)]
             ELSE [end |-> 0, attrs |-> "", inner |-> ""]))
    ELSE [end |-> 0, attrs |-> "", inner |-> ""]

\* the replace callback: what is pushed on anchors
RebuiltAnchor_KeepsAttrs(attrs, inner) == "<a" \o attrs \o ">" \o inner \o "</a>"

RebuiltAnchor(attrs, inner) ==
    Once(HrefOf(attrs), LAMBDA href :
        IF href # "" THEN "<a href=\"" \o href \o "\">" \o inner \o "</a>" ELSE inner)

\* a natural number in decimal: the template literal's ${anchors.length - 1}
RECURSIVE NatToStr(_)
NatToStr(n) ==
    IF n < 10 THEN Ch("0123456789", n + 1) ELSE NatToStr(n \div 10) \o Ch("0123456789", (n % 10) + 1)

\* parseInt of a run of digits
RECURSIVE StrToNat(_)
StrToNat(d) ==
    IF d = "" THEN 0
    ELSE 10 * StrToNat(SubSeq(d, 1, Len(d) - 1))
         + (CHOOSE v \in 0..9 : Ch("0123456789", v + 1) = Ch(d, Len(d)))

\* the anchor-extracting replace: the text with placeholders, and the side list anchors
RECURSIVE ExtractAnchors(_, _, _)
ExtractAnchors(s, i, n) ==
    Once(First({j \in i..Len(s) : AnchorMatchAt(s, j).end > 0}), LAMBDA at :
        IF at = 0 THEN [body |-> SubSeq(s, i, Len(s)), anchors |-> <<>>]
        ELSE Once(AnchorMatchAt(s, at), LAMBDA m :
             Once(ExtractAnchors(s, m.end + 1, n + 1), LAMBDA rest :
                 [body |-> SubSeq(s, i, at - 1) \o NUL \o "A" \o NatToStr(n) \o NUL
                           \o rest.body,
                  anchors |-> <<RebuiltAnchor(m.attrs, m.inner)>> \o rest.anchors])))

\* replace(/\x00A(\d+)\x00/g, (match, index) => anchors[parseInt(index)]); an index past
\* the list gives undefined, which replace writes as "undefined"
AnchorMarkEnd(s, i) ==
    LET e == DigitRunEnd(s, i + 2)
    IN  IF MatchAt(s, i, NUL \o "A") /\ e >= i + 2 /\ Ch(s, e + 1) = NUL THEN e + 1 ELSE 0

RECURSIVE RestoreAnchors(_, _, _)
RestoreAnchors(s, i, anchors) ==
    Once(First({j \in i..Len(s) : AnchorMarkEnd(s, j) > 0}), LAMBDA at :
        IF at = 0 THEN SubSeq(s, i, Len(s))
        ELSE Once(AnchorMarkEnd(s, at), LAMBDA e :
             Once(StrToNat(SubSeq(s, at + 2, e - 1)), LAMBDA index :
                 SubSeq(s, i, at - 1)
                 \o (IF index < Len(anchors) THEN anchors[index + 1] ELSE "undefined")
                 \o RestoreAnchors(s, e + 1, anchors))))

stripTagsKeepBrA_KeepsOtherTags(bodyHtml) ==
    Once(ReplaceAll("br", ReplaceAll("wbr", bodyHtml)), LAMBDA s2 :
    Once(ExtractAnchors(s2, 1, 0), LAMBDA ex :
    Once(ReplaceAll("cr", ex.body), LAMBDA s7 :
        Trim(ReplaceAll("brPad", ReplaceAll("hspace", RestoreAnchors(s7, 1, ex.anchors)))))))

stripTagsKeepBrA(bodyHtml) ==
    Once(ReplaceAll("br", ReplaceAll("wbr", bodyHtml)), LAMBDA s2 :
    Once(ExtractAnchors(s2, 1, 0), LAMBDA ex :
    Once(ReplaceAll("brMark", ReplaceAll("cr", ReplaceAll("tag",
             ReplaceAll("brToken", ex.body)))), LAMBDA s7 :
        Trim(ReplaceAll("brPad", ReplaceAll("hspace", RestoreAnchors(s7, 1, ex.anchors)))))))

(***************************************************************************)
(* extractNameAndMail, unescapeHtml, parseHtmlPosts, extractThreadKey      *)
(***************************************************************************)
\* the character references unescapeHtml is modelled to decode (the predefined ones)
Entities == {"&lt;", "&gt;", "&amp;", "&quot;", "&#39;"}
EntityChar(e) ==
    CASE e = "&lt;" -> "<" [] e = "&gt;" -> ">" [] e = "&amp;" -> "&"
      [] e = "&quot;" -> "\"" [] e = "&#39;" -> "'"

EntityAt(s, i) == {e \in Entities : MatchAt(s, i, e)}

\* textarea.innerHTML = text; textarea.value
RECURSIVE UnescapeFrom(_, _)
UnescapeFrom(text, i) ==
    Once(First({j \in i..Len(text) : EntityAt(text, j) # {}}), LAMBDA at :
        IF at = 0 THEN SubSeq(text, i, Len(text))
        ELSE Once(CHOOSE e \in EntityAt(text, at) : TRUE, LAMBDA e :
                 SubSeq(text, i, at - 1) \o EntityChar(e) \o UnescapeFrom(text, at + Len(e))))

unescapeHtml(text) == Once(text, LAMBDA t : UnescapeFrom(t, 1))

\* <tag\s+class="cls"> tried at position i, letter case ignored: the position after the
\* ">", 0 when it does not match
OpenerEnd(s, i, tag, cls) ==
    LET w == i + 1 + Len(tag)
        c == SkipSpace(s, w)
        lit == "class=\"" \o cls \o "\">"
    IN  IF MatchAtCI(s, i, "<" \o tag) /\ c > w /\ MatchAtCI(s, c, lit) THEN c + Len(lit)
        ELSE 0

\* <tag\s+class="cls">([\s\S]*?)<\/tag>: the leftmost opener that has a closing tag after
\* it, and the text up to the first closing tag
ElementMatch(s, tag, cls) ==
    Once(<<s, "</" \o tag \o ">">>, LAMBDA a :
    Once(First({i \in 1..Len(a[1]) :
                   /\ OpenerEnd(a[1], i, tag, cls) > 0
                   /\ IndexOfCI(a[1], a[2], OpenerEnd(a[1], i, tag, cls)) > 0}), LAMBDA at :
        IF at = 0 THEN [matched |-> FALSE, text |-> ""]
        ELSE Once(OpenerEnd(a[1], at, tag, cls), LAMBDA b :
                 [matched |-> TRUE, text |-> SubSeq(a[1], b, IndexOfCI(a[1], a[2], b) - 1)])))

\* <span\s+class="cls">\s*prefix([^<]+?)\s*<\/span> (prefix is "" or "id:"): the leftmost
\* opener followed by white space, the prefix, at least one character other than "<" and
\* the closing tag; the group is that text less the white space \s* takes at either end
SpanTextMatch(s, cls, prefix) ==
    Once(s, LAMBDA t :
        LET From(i) == SkipSpace(t, OpenerEnd(t, i, "span", cls)) + Len(prefix)
            To(i) == RunEndNot(t, From(i), {"<"})
        IN  Once(First({i \in 1..Len(t) :
                           /\ OpenerEnd(t, i, "span", cls) > 0
                           /\ MatchAtCI(t, From(i) - Len(prefix), prefix)
                           /\ To(i) >= From(i)
                           /\ MatchAtCI(t, To(i) + 1, "</span>")}), LAMBDA at :
                IF at = 0 THEN [matched |-> FALSE, text |-> ""]
                ELSE [matched |-> TRUE, text |-> SubSeq(t, From(at), To(at))]))

\* postHtml.match(/href="mailto:([^"]*)"/i)
MailMatch(postHtml) ==
    Once(postHtml, LAMBDA t :
    Once(First({i \in 1..Len(t) :
                   MatchAtCI(t, i, "href=\"mailto:") /\ IndexOf(t, "\"", i + 13) > 0}), LAMBDA at :
        IF at = 0 THEN [matched |-> FALSE, text |-> ""]
        ELSE [matched |-> TRUE, text |-> SubSeq(t, at + 13, IndexOf(t, "\"", at + 13) - 1)]))

\* block.match(/>([^<]+)<\/a>/i)
AnchorTextMatch(block) ==
    Once(block, LAMBDA t :
        LET To(i) == RunEndNot(t, i + 1, {"<"})
        IN  Once(First({i \in 1..Len(t) :
                           Ch(t, i) = ">" /\ To(i) > i /\ MatchAtCI(t, To(i) + 1, "</a>")}),
                 LAMBDA at :
                     IF at = 0 THEN [matched |-> FALSE, text |-> ""]
                     ELSE [matched |-> TRUE, text |-> SubSeq(t, at + 1, To(at))]))

extractNameAndMail(postHtml) ==
    Once(<<MailMatch(postHtml), ElementMatch(postHtml, "span", "postusername")>>, LAMBDA found :
        LET mailMatch == found[1]
            usernameMatch == found[2]
            mail == IF mailMatch.matched THEN Trim(unescapeHtml(mailMatch.text)) ELSE ""
            block == usernameMatch.text
            name == IF ~usernameMatch.matched THEN ""
                    ELSE Once(AnchorTextMatch(block), LAMBDA anchorMatch :
                             IF anchorMatch.matched THEN anchorMatch.text
                             ELSE ReplaceAll("tag", block))
        IN  [name |-> Trim(unescapeHtml(name)), mail |-> mail])

\* /<div\s+id="(\d+)"[^>]*\bclass="[^"]*\bpost\b[^"]*"[^>]*>/gi tried at position i: the
\* position of the ">" that ends the match, 0 when it does not match.  The class attribute
\* is the last one that the first [^>]* can reach.
PostWordIn(s, from, to) ==
    \E k \in from..(to - 3) :
        MatchAtCI(s, k, "post") /\ ~WordChar(Ch(s, k - 1)) /\ ~WordChar(Ch(s, k + 4))

DivPostEnd(s, i) ==
    LET w == i + 4
        a == SkipSpace(s, w)
        d == DigitRunEnd(s, a + 4)
        gt == IndexOf(s, ">", d + 2)
        reach == IF gt = 0 THEN Len(s) ELSE gt
        C == {c \in (d + 2)..reach :
                 /\ MatchAtCI(s, c, "class=\"")
                 /\ ~WordChar(Ch(s, c - 1))
                 /\ IndexOf(s, "\"", c + 7) > 0
                 /\ PostWordIn(s, c + 7, IndexOf(s, "\"", c + 7) - 1)
                 /\ IndexOf(s, ">", IndexOf(s, "\"", c + 7) + 1) > 0}
    IN  IF /\ MatchAtCI(s, i, "<div")
           /\ a > w
           /\ MatchAtCI(s, a, "id=\"")
           /\ d >= a + 4
           /\ Ch(s, d + 1) = "\""
           /\ C # {}
        THEN IndexOf(s, ">", IndexOf(s, "\"", Max(C) + 7) + 1)
        ELSE 0

\* Array.from(htmlText.matchAll(divPostRegex)): the index of each match, left to right
RECURSIVE DivPostStarts(_, _)
DivPostStarts(htmlText, from) ==
    Once(First({i \in from..Len(htmlText) : DivPostEnd(htmlText, i) > 0}), LAMBDA at :
        IF at = 0 THEN <<>>
        ELSE Once(DivPostEnd(htmlText, at) + 1, LAMBDA next :
                 <<at>> \o DivPostStarts(htmlText, next)))

\* the body of the for loop: the post of one block
ParseHtmlBlock(block) ==
    Once(block, LAMBDA b :
    Once(extractNameAndMail(b), LAMBDA nm :
        LET dateMatch == SpanTextMatch(b, "date", "")
            date == IF dateMatch.matched THEN Trim(unescapeHtml(dateMatch.text)) ELSE ""
            uidMatch == SpanTextMatch(b, "uid", "id:")
            id == IF uidMatch.matched THEN Trim(unescapeHtml(uidMatch.text)) ELSE ""
            contentMatch == ElementMatch(b, "section", "post-content")
            bodyHtml == IF contentMatch.matched THEN contentMatch.text ELSE ""
            message == stripTagsKeepBrA(bodyHtml)
        IN  Post(IF nm.name # "" THEN nm.name ELSE "", nm.mail, date, id, message)))

parseHtmlPosts(htmlText) ==
    Once(htmlText, LAMBDA t :
    Once(DivPostStarts(t, 1), LAMBDA matches :
        [i \in 1..Len(matches) |->
            LET start == matches[i]
                end == IF i + 1 <= Len(matches) THEN matches[i + 1] - 1 ELSE Len(t)
            IN  ParseHtmlBlock(SubSeq(t, start, end))]))

\* htmlText.match(/<link\s+rel="canonical"\s+href="([^"]+)"/i)
CanonicalMatch(htmlText) ==
    Once(htmlText, LAMBDA t :
        LET Rel(i) == SkipSpace(t, i + 5)
            Href(i) == SkipSpace(t, Rel(i) + 15)
        IN  Once(First({i \in 1..Len(t) :
                           /\ MatchAtCI(t, i, "<link")
                           /\ Rel(i) > i + 5
                           /\ MatchAtCI(t, Rel(i), "rel=\"canonical\"")
                           /\ Href(i) > Rel(i) + 15
                           /\ MatchAtCI(t, Href(i), "href=\"")
                           /\ IndexOf(t, "\"", Href(i) + 6) > Href(i) + 6}), LAMBDA at :
                IF at = 0 THEN [matched |-> FALSE, text |-> ""]
                ELSE [matched |-> TRUE,
                      text |-> SubSeq(t, Href(at) + 6, IndexOf(t, "\"", Href(at) + 6) - 1)]))

\* canonical.match(/\/read\.cgi\/[^\/]+\/(\d+)\//)
KeyMatch(canonical) ==
    Once(canonical, LAMBDA t :
        LET Slash(i) == IndexOf(t, "/", i + 10)
        IN  Once(First({i \in 1..Len(t) :
                           /\ MatchAt(t, i, "/read.cgi/")
                           /\ Slash(i) > i + 10
                           /\ DigitRunEnd(t, Slash(i) + 1) > Slash(i)
                           /\ Ch(t, DigitRunEnd(t, Slash(i) + 1) + 1) = "/"}), LAMBDA at :
                IF at = 0 THEN [matched |-> FALSE, text |-> ""]
                ELSE [matched |-> TRUE,
                      text |-> SubSeq(t, Slash(at) + 1, DigitRunEnd(t, Slash(at) + 1))]))

\* extractThreadKey looking for the thread path anywhere in the document
extractThreadKey_AnyReadCgiPath(htmlText) ==
    Once(KeyMatch(htmlText), LAMBDA keyMatch :
        IF keyMatch.matched THEN keyMatch.text ELSE "")

extractThreadKey(htmlText) ==
    Once(CanonicalMatch(htmlText), LAMBDA canonicalMatch :
        IF canonicalMatch.matched
        THEN Once(KeyMatch(canonicalMatch.text), LAMBDA keyMatch :
                 IF keyMatch.matched THEN keyMatch.text ELSE "")
        ELSE "")

(***************************************************************************)
(* convertHtmlToDat: the dat line layout                                   *)
(***************************************************************************)
\* the arrow function of posts.map
DatLine_AlwaysId(p) ==
    p.name \o "<>" \o p.mail \o "<>" \o p.date \o " ID:" \o p.id \o "<>" \o p.message \o "<>"

DatLine(p) ==
    p.name \o "<>" \o p.mail \o "<>" \o p.date
        \o (IF p.id # "" THEN " ID:" \o p.id ELSE "") \o "<>" \o p.message \o "<>"

\* Array.prototype.join
RECURSIVE Join(_, _)
Join(strs, sep) ==
    IF strs = <<>> THEN ""
    ELSE IF Len(strs) = 1 THEN strs[1]
    ELSE strs[1] \o sep \o Join(Tail(strs), sep)

\* datLines.join('\n') + (datLines.length > 0 ? '\n' : '')
DatContentOf_NoTrailingLf(ps) ==
    Once(ps, LAMBDA posts_ : Join([k \in 1..Len(posts_) |-> DatLine(posts_[k])], "\n"))

DatContentOf(ps) ==
    Once(ps, LAMBDA posts_ :
    Once([k \in 1..Len(posts_) |-> DatLine(posts_[k])], LAMBDA datLines :
        Join(datLines, "\n") \o (IF Len(datLines) > 0 THEN "\n" ELSE "")))

convertHtmlToDat(htmlText) ==
    Once(htmlText, LAMBDA t :
        [datContent |-> DatContentOf(parseHtmlPosts(t)), threadKey |-> extractThreadKey(t)])

(***************************************************************************)
(* Thread URLs tried: scheme, host, path, board, thread id, what follows    *)
(***************************************************************************)
MaxIdLen == 7

UrlSchemes == {"https://", "http://", "ftp://", ""}
UrlHosts == {"egg.5ch.net", "mercury.bbspink.com", "toro.2ch.sc", "5ch.net",
             "a.b.bbspink.com", "localhost"}
UrlPaths == {"/test/read.cgi/", "/read.cgi/", "/test/read.cgi"}
UrlBoards == {"news", "a.b", ""}
UrlThreadIds == {SubSeq("1234567890123456", 1, n) : n \in 0..MaxIdLen}
UrlTails == {"", "/", "/l50", "abc"}

ThreadUrlParts ==
    [scheme : UrlSchemes, host : UrlHosts, path : UrlPaths, board : UrlBoards,
     threadId : UrlThreadIds, tail : UrlTails]

UrlOf(p) == p.scheme \o p.host \o p.path \o p.board \o "/" \o p.threadId \o p.tail

(***************************************************************************)
(* Dat texts tried: up to MaxLines lines, each well formed or not          *)
(***************************************************************************)
MaxLines == 3

DatLines == {"", "  ", "\r", "junk", "a<>b<>c", "n<>sage<>d ID:i<>msg1<>title",
             "<><>D ID:x y<>msg2", " <> <> <>msg3<>\r", "a<>b<>c<>msg4<>e<>f"}

RECURSIVE SeqsUpTo(_, _)
SeqsUpTo(S, n) ==
    IF n = 0 THEN {<<>>}
    ELSE LET shorter == SeqsUpTo(S, n - 1)
         IN  shorter \cup {Append(q, x) : q \in shorter, x \in S}

DatLineSeqs == SeqsUpTo(DatLines, MaxLines)

(***************************************************************************)
(* Dat records tried field by field: field 2 is the text before the id,    *)
(* the id written as ID:<run> (or nothing) and the text after it.          *)
(***************************************************************************)
RecordNames == {"", " ", "n"}
RecordMails == {"", " sage "}
RecordBeforeId == {"", "2024/01/01 ", " d", "xID:\t"}
RecordIdRuns == {"", "abc", "a<b", "ID:z"}
RecordAfterId == {"", " ", " BE:1 ID:q", "\r"}
RecordTails == {"", "<>title<>"}

\* without an id written, nothing after it either
DatRecords ==
    {r \in [name : RecordNames, mail : RecordMails, before : RecordBeforeId,
            run : RecordIdRuns, after : RecordAfterId, tail : RecordTails] :
        r.run = "" => r.after \in {"", " ", "\r"}}

DateAndIdOf(r) == r.before \o (IF r.run = "" THEN "" ELSE "ID:" \o r.run) \o r.after

DatRecordOf(r) == r.name \o "<>" \o r.mail \o "<>" \o DateAndIdOf(r) \o "<>msg" \o r.tail

(***************************************************************************)
(* Posts tried for the round trip through the dat layout                   *)
(***************************************************************************)
MaxPosts == 2

RtNames == {"", "a", " ", "n<"}
RtMails == {"", "sage", ">"}
RtDates == {"", "d", " d", "d\t", "ID:x", "xID:", "a ID:y b"}
RtIds == {"", "i", "i j", "ID:k"}
RtMessages == {"", "m", "a\nb", "m<", "<br>"}

RtPosts ==
    {Post(n, m, d, i, b) : n \in RtNames, m \in RtMails, d \in RtDates, i \in RtIds,
                           b \in RtMessages}

CorePosts == {Post("a", "sage", "d", "i", "m"),
              Post("n<", ">", "2024/01/01(Mon) 00:00:00.00", "", "<br>x"),
              Post("", "", "", "", ""),
              Post("b", "", "d", "i j", "m")}

PostSeqs == {<<p>> : p \in RtPosts} \cup SeqsUpTo(CorePosts, MaxPosts)

(***************************************************************************)
(* Post-body markup tried: up to MaxPieces pieces.  A piece of kind text,  *)
(* br, tag or anchor is markup of the regular kind (a run of text without  *)
(* white space, a line break, a non-anchor tag, an anchor with an href     *)
(* around text); a piece of kind raw is anything else.                     *)
(***************************************************************************)
MaxPieces == 3

Piece(kind, src, href, inner) == [kind |-> kind, src |-> src, href |-> href, inner |-> inner]

RegularPieces ==
    {Piece("text", "a", "", ""),
     Piece("br", "<br>", "", ""), Piece("br", "<br />", "", ""), Piece("br", "<BR/>", "", ""),
     Piece("tag", "<span class=\"x\">", "", ""), Piece("tag", "</span>", "", ""),
     Piece("tag", "<wbr>", "", ""), Piece("tag", "<abbr>", "", ""),
     Piece("anchor", "<a href=\"x\">d</a>", "x", "d"),
     Piece("anchor", "<A id=\"c\" HREF=\"../y\" rel=\"z\">&gt;1</A>", "../y", "&gt;1"),
     Piece("anchor", "<a href=\"x\"><b>d</b></a>", "x", "<b>d</b>")}

RawPieces ==
    {Piece("raw", src, "", "") :
        src \in {" ", "\r\n", "<", ">", "<b", "<a>", "</a>",
                 "<a><i>x</i></a>", NUL \o "A0" \o NUL}}

RECURSIVE SrcOf(_)
SrcOf(pieces) == IF pieces = <<>> THEN "" ELSE Head(pieces).src \o SrcOf(Tail(pieces))

\* the example of the specification's section 8
ExampleMarkup ==
    <<Piece("text", "a", "", ""), Piece("br", "<br>", "", ""), Piece("text", "b", "", ""),
      Piece("tag", "<span>", "", ""), Piece("text", "c", "", ""), Piece("tag", "</span>", "", ""),
      Piece("anchor", "<a href=\"x\">d</a>", "x", "d")>>

MarkupTried ==
    SeqsUpTo(RegularPieces, MaxPieces)
        \cup SeqsUpTo(RegularPieces \cup RawPieces, MaxPieces - 1)
        \cup {ExampleMarkup}

(***************************************************************************)
(* Inputs of parseHtmlPosts and convertHtmlToDat: a page is an optional     *)
(* head followed by up to MaxBlocks blocks of archive markup.              *)
(***************************************************************************)
MaxBlocks == 2

HtmlHeads ==
    {"",
     "<link rel=\"canonical\" href=\"https://a.5ch.net/test/read.cgi/b/1234567890/\">",
     "<LINK  REL=\"canonical\" href=\"https://a.5ch.net/read.cgi/b/12a/\">"}

HtmlBlocks ==
    {"<div id=\"1\" class=\"post\"><span class=\"postusername\"><b><a href=\"mailto:sage\">"
       \o "Mr&amp;X</a></b></span><span class=\"date\">2024/01/01</span><span class=\"uid\">"
       \o "ID:abc</span><section class=\"post-content\"> hi<br> <a href=\"../5\" "
       \o "target=\"_blank\">&gt;&gt;5</a> </section></div>",
     "<div id=\"2\" data-x=\"y\" class=\"meta post\"><span class=\"postusername\"><b>774</b>"
       \o "</span><span class=\"date\"> 2024/01/02 </span><section class=\"post-content\">"
       \o "yo</section></div>",
     "<div id=\"3\" class=\"post\"><span class=\"date\">d</span><span class=\"uid\">ID:q"
       \o "</span><section class=\"post-content\"><span>x</span></section></div>",
     "<DIV ID=\"4\" CLASS=\"post\"><span class=\"postusername\"> </span><span "
       \o "class=\"uid\">id: </span><section class=\"post-content\">z</section></DIV>",
     "<div id=\"5\" class=\"posts\"><span class=\"postusername\">no</span></div>",
     "<div class=\"post\" id=\"6\"><section class=\"post-content\">no</section></div>",
     "<div id=\"7\" class=\"post-x\"></div>"}

RECURSIVE Concat(_)
Concat(strs) == IF strs = <<>> THEN "" ELSE Head(strs) \o Concat(Tail(strs))

HtmlPages ==
    {[head |-> h, blocks |-> bs] : h \in HtmlHeads, bs \in SeqsUpTo(HtmlBlocks, MaxBlocks)}

HtmlOf(page) == page.head \o Concat(page.blocks)

(***************************************************************************)
(* Inputs of extractThreadKey: a document is some leading markup followed  *)
(* by at most one <link> element, whose href is built from its parts.      *)
(***************************************************************************)
KeyPrefixes == {"<html><head><title>t</title>", "<a href=\"/test/read.cgi/b/999/\">x</a>"}

\* how the <link> element is written; "none" is a document without one
KeyLinkKinds == {"canonical", "upper", "reversed", "stylesheet"}

KeyHrefParts ==
    [pre : {"https://a.5ch.net/test", ""}, board : {"b", "4649"},
     id : {"123456789", "1", "12a", ""}, tail : {"/", "", "/l50"}]

KeyHrefOf(h) == h.pre \o "/read.cgi/" \o h.board \o "/" \o h.id \o h.tail

NoHref == [pre |-> "", board |-> "", id |-> "", tail |-> ""]

KeyDocs ==
    {[prefix |-> x, kind |-> "none", href |-> NoHref] : x \in KeyPrefixes}
        \cup [prefix : KeyPrefixes, kind : KeyLinkKinds, href : KeyHrefParts]

KeyLinkOf(kind, href) ==
    CASE kind = "none"       -> ""
      [] kind = "canonical"  -> "<link rel=\"canonical\" href=\"" \o href \o "\">"
      [] kind = "upper"      -> "<LINK  REL=\"canonical\"\n HREF=\"" \o href \o "\" />"
      [] kind = "reversed"   -> "<link href=\"" \o href \o "\" rel=\"canonical\">"
      [] kind = "stylesheet" -> "<link rel=\"stylesheet\" href=\"" \o href \o "\">"

KeyDocOf(doc) == doc.prefix \o KeyLinkOf(doc.kind, KeyHrefOf(doc.href)) \o "</head><body></body></html>"

(***************************************************************************)
(* What the user and the network supply to the page                        *)
(***************************************************************************)
\* A byte buffer: the text it holds, the encoding it holds it in and what Encoding.detect
\* answers for it.  MultiByte stands for a character outside ASCII.
MultiByte == "%"

Bytes(encoding, detected, text) == [encoding |-> encoding, detected |-> detected, text |-> text]

\* a character outside ASCII read in another encoding than its own comes out as another one
RECURSIVE MojibakeFrom(_, _)
MojibakeFrom(text, i) ==
    Once(IndexOf(text, MultiByte, i), LAMBDA k :
        IF k = 0 THEN SubSeq(text, i, Len(text))
        ELSE SubSeq(text, i, k - 1) \o "?" \o MojibakeFrom(text, k + 1))

\* Encoding.codeToString(Encoding.convert(uint8Array, {to: 'UNICODE', from}))
Decode(bytes, from) ==
    IF from = bytes.encoding THEN bytes.text ELSE MojibakeFrom(bytes.text, 1)

\* the `from` handleFileUpload converts with
UploadEncoding(detectedEncoding) == IF detectedEncoding = "SJIS" THEN "SJIS" ELSE "UTF8"

\* the `from` handleHtmlConvert converts with, on the direct path and on the proxy path
HtmlEncoding(detectedEncoding) ==
    IF detectedEncoding = "SJIS" \/ detectedEncoding = "EUCJP" THEN detectedEncoding ELSE "SJIS"

\* the text handleFileUpload parses
UploadText(bytes) == Decode(bytes, UploadEncoding(bytes.detected))

\* the text handleHtmlConvert converts
HtmlText(bytes) == Decode(bytes, HtmlEncoding(bytes.detected))

MaxPending == 1

ThreadUrlsTyped == {"https://egg.5ch.net/test/read.cgi/news/1234567890/", "5ch.net/123"}
HtmlUrlsTyped == {"", "https://kako.example/t/1"}
ResponseBlob == "(response body)"

NoFile == Bytes("", "", "")
FilesTried ==
    {Bytes("SJIS", "SJIS", "junk%\nn<>m<>d"),
     Bytes("EUCJP", "EUCJP", "n%<>sage<>d ID:i<>m<>t\n<><>d<>m2<>\n")}

HtmlBodies ==
    {Bytes("EUCJP", "EUCJP", "<html><div class=\"post\">none%</div></html>"),
     Bytes("SJIS", "SJIS",
           "<link rel=\"canonical\" href=\"https://a.5ch.net/test/read.cgi/b/1234567890/\">"
             \o "<div id=\"1\" class=\"post\"><span class=\"postusername\"><b>n%</b></span>"
             \o "<span class=\"uid\">ID:i</span><section class=\"post-content\">m</section></div>"),
     Bytes("UTF8", "UTF8",
           "<div id=\"1\" class=\"post\"><span class=\"date\">d</span>"
             \o "<section class=\"post-content\">m%</section></div>")}

\* the calls the handlers make on what is supplied, and what they return
HtmlTexts == {HtmlText(body) : body \in HtmlBodies}
UploadTexts == {UploadText(file) : file \in FilesTried}

Results ==
    [convertToDatUrl |->
         [url \in ThreadUrlsTyped \cup {""} |->
             [datOchi \in BOOLEAN |-> convertToDatUrl(url, datOchi)]],
     convertHtmlToDat |-> [htmlText \in HtmlTexts |-> convertHtmlToDat(htmlText)],
     parseHtmlPosts |-> [htmlText \in HtmlTexts |-> parseHtmlPosts(htmlText)],
     parseDatFile |-> [text \in UploadTexts |-> parseDatFile(text)]]

NoCall == [fn |-> "none"]

\* overdue: 30 seconds have passed since the fetch started
NoFetch == [stage |-> "none", url |-> "", overdue |-> FALSE]

NoEffect == [op |-> "none"]

Init ==
    /\ threadUrl = ""
    /\ datUrl = ""
    /\ posts = <<>>
    /\ error = ""
    /\ isDatOchi = FALSE
    /\ htmlUrl = ""
    /\ isConverting = FALSE
    /\ datFetches = <<>>
    /\ htmlFetch = NoFetch
    /\ fileReads = <<>>
    /\ effect = NoEffect
    /\ results = Results
    /\ call = NoCall

CallConvertToDatUrl ==
    /\ call.fn = "none"
    /\ \E p \in ThreadUrlParts, b \in BOOLEAN :
          call' = [fn |-> "convertToDatUrl", parts |-> p, url |-> UrlOf(p),
                   isDatOchi |-> b, ret |-> convertToDatUrl(UrlOf(p), b)]
    /\ UNCHANGED pageVars

CallParseDatFile ==
    /\ call.fn = "none"
    /\ \E lines \in DatLineSeqs, last \in {"", "\n"} :
          call' = [fn |-> "parseDatFile", lines |-> lines,
                   content |-> Join(lines, "\n") \o last,
                   ret |-> parseDatFile(Join(lines, "\n") \o last)]
    /\ UNCHANGED pageVars

\* serialise with the dat line layout of convertHtmlToDat, then parseDatFile
CallRoundTrip ==
    /\ call.fn = "none"
    /\ \E ps \in PostSeqs :
          call' = [fn |-> "roundTrip", posts |-> ps, dat |-> DatContentOf(ps),
                   ret |-> parseDatFile(DatContentOf(ps))]
    /\ UNCHANGED pageVars

\* parseDatFile on one record
CallParseDatRecord ==
    /\ call.fn = "none"
    /\ \E r \in DatRecords :
          call' = [fn |-> "parseDatFile(record)", record |-> r, content |-> DatRecordOf(r),
                   ret |-> parseDatFile(DatRecordOf(r))]
    /\ UNCHANGED pageVars

DatNext == CallParseDatFile \/ CallRoundTrip \/ CallParseDatRecord

DatSpec == Init /\ [][DatNext]_vars

CallStripTagsKeepBrA ==
    /\ call.fn = "none"
    /\ \E pieces \in MarkupTried :
          call' = [fn |-> "stripTagsKeepBrA", pieces |-> pieces, bodyHtml |-> SrcOf(pieces),
                   ret |-> stripTagsKeepBrA(SrcOf(pieces))]
    /\ UNCHANGED pageVars

StripNext == CallStripTagsKeepBrA

StripSpec == Init /\ [][StripNext]_vars

CallConvertHtmlToDat ==
    /\ call.fn = "none"
    /\ \E page \in HtmlPages :
           call' = [fn |-> "convertHtmlToDat", page |-> page, htmlText |-> HtmlOf(page),
                    posts |-> parseHtmlPosts(HtmlOf(page)),
                    ret |-> convertHtmlToDat(HtmlOf(page))]
    /\ UNCHANGED pageVars

HtmlNext == CallConvertHtmlToDat

HtmlSpec == Init /\ [][HtmlNext]_vars

\* a.download = `${threadKey || 'thread'}.dat`
DownloadName(threadKey) == (IF threadKey # "" THEN threadKey ELSE "thread") \o ".dat"

CallExtractThreadKey ==
    /\ call.fn = "none"
    /\ \E doc \in KeyDocs :
           call' = [fn |-> "extractThreadKey", doc |-> doc, htmlText |-> KeyDocOf(doc),
                    ret |-> extractThreadKey(KeyDocOf(doc)),
                    download |-> DownloadName(extractThreadKey(KeyDocOf(doc)))]
    /\ UNCHANGED pageVars

KeyNext == CallExtractThreadKey

KeySpec == Init /\ [][KeyNext]_vars

UrlNext == CallConvertToDatUrl

UrlSpec == Init /\ [][UrlNext]_vars

(***************************************************************************)
(* The page: its handlers, each awaited promise a step of its own          *)
(***************************************************************************)
\* the messages of setError
InvalidUrlMessage == "invalid URL"                          \* handleConvert
TimeoutMessage == "download timed out"                      \* handleDownload, AbortError
CorsMessage == "CORS error, opening the dat in a new tab"   \* handleDownload, other errors
EnterUrlMessage == "enter a URL"                            \* handleHtmlConvert, no URL
TryingProxyMessage == "direct access failed, trying proxy"  \* direct fetch failed
HtmlParseFailedMessage == "HTML parse failed"               \* no dat content
ErrorPrefix == "error: "                                    \* outer catch
ProxyFailedMessage == "fetch through the proxy failed"      \* proxy response not ok
FetchRejectedMessage == "Failed to fetch"                   \* e.message of a rejected fetch
DatParseFailedMessage == "dat parse failed"                 \* handleFileUpload, no posts
FileReadFailedMessage == "file read failed"                 \* handleFileUpload, catch

\* a.download = name; a.click() on a blob of that text
SavedFile(name, text) == [op |-> "save", name |-> name, text |-> text]

\* window.open(url, '_blank', 'noopener,noreferrer')
OpenedTab(url) == [op |-> "open", url |-> url]

\* datUrl.split('/').pop()
LastSegment(url) ==
    Once({i \in 1..Len(url) : Ch(url, i) = "/"}, LAMBDA S :
        IF S = {} THEN url ELSE SubSeq(url, Max(S) + 1, Len(url)))

RemoveAt(seq, k) == SubSeq(seq, 1, k - 1) \o SubSeq(seq, k + 1, Len(seq))

setThreadUrl ==
    /\ \E value \in ThreadUrlsTyped : threadUrl' = value
    /\ effect' = NoEffect
    /\ UNCHANGED <<datUrl, posts, error, isDatOchi, htmlUrl, isConverting,
                   datFetches, htmlFetch, fileReads, results, call>>

setIsDatOchi ==
    /\ isDatOchi' = ~isDatOchi
    /\ effect' = NoEffect
    /\ UNCHANGED <<threadUrl, datUrl, posts, error, htmlUrl, isConverting,
                   datFetches, htmlFetch, fileReads, results, call>>

setHtmlUrl ==
    /\ \E value \in HtmlUrlsTyped : htmlUrl' = value
    /\ effect' = NoEffect
    /\ UNCHANGED <<threadUrl, datUrl, posts, error, isDatOchi, isConverting,
                   datFetches, htmlFetch, fileReads, results, call>>

\* handleConvert without the else branch's setDatUrl('')
handleConvert_KeepsDatUrl ==
    /\ LET converted == results.convertToDatUrl[threadUrl][isDatOchi]
       IN  IF ~converted.isNull /\ converted.val # ""
           THEN error' = "" /\ datUrl' = converted.val
           ELSE error' = InvalidUrlMessage /\ UNCHANGED datUrl
    /\ effect' = NoEffect
    /\ UNCHANGED <<threadUrl, posts, isDatOchi, htmlUrl, isConverting,
                   datFetches, htmlFetch, fileReads, results, call>>

handleConvert ==
    /\ LET converted == results.convertToDatUrl[threadUrl][isDatOchi]
       IN  IF ~converted.isNull /\ converted.val # ""
           THEN error' = "" /\ datUrl' = converted.val
           ELSE error' = InvalidUrlMessage /\ datUrl' = ""
    /\ effect' = NoEffect
    /\ UNCHANGED <<threadUrl, posts, isDatOchi, htmlUrl, isConverting,
                   datFetches, htmlFetch, fileReads, results, call>>

\* handleDownload up to its await
handleDownload ==
    /\ IF datUrl = "" THEN UNCHANGED datFetches
       ELSE /\ Len(datFetches) < MaxPending
            /\ datFetches' = Append(datFetches, datUrl)
    /\ effect' = NoEffect
    /\ UNCHANGED <<threadUrl, datUrl, posts, error, isDatOchi, htmlUrl, isConverting,
                   htmlFetch, fileReads, results, call>>

\* handleDownload from its await on: the response is ok and its blob is saved
DownloadSaved(k) ==
    /\ k \in 1..Len(datFetches)
    /\ effect' =
          (SavedFile(IF LastSegment(datFetches[k]) # "" THEN LastSegment(datFetches[k])
                     ELSE "thread.dat", ResponseBlob))
    /\ error' = ""
    /\ datFetches' = RemoveAt(datFetches, k)
    /\ UNCHANGED <<threadUrl, datUrl, posts, isDatOchi, htmlUrl, isConverting,
                   htmlFetch, fileReads, results, call>>

\* 30 seconds pass on a pending fetch(datUrl): the timer aborts it: catch, AbortError
DownloadAborted(k) ==
    /\ k \in 1..Len(datFetches)
    /\ error' = TimeoutMessage
    /\ datFetches' = RemoveAt(datFetches, k)
    /\ effect' = NoEffect
    /\ UNCHANGED <<threadUrl, datUrl, posts, isDatOchi, htmlUrl, isConverting,
                   htmlFetch, fileReads, results, call>>

\* the fetch rejects, the response is not ok or its blob cannot be read: catch, any other error
DownloadFailed(k) ==
    /\ k \in 1..Len(datFetches)
    /\ error' = CorsMessage
    /\ effect' = OpenedTab(datFetches[k])
    /\ datFetches' = RemoveAt(datFetches, k)
    /\ UNCHANGED <<threadUrl, datUrl, posts, isDatOchi, htmlUrl, isConverting,
                   htmlFetch, fileReads, results, call>>

\* handleHtmlConvert up to its first await; its button is disabled while isConverting
handleHtmlConvert ==
    /\ ~isConverting
    /\ IF htmlUrl = ""
       THEN /\ error' = EnterUrlMessage
            /\ UNCHANGED <<isConverting, htmlFetch>>
       ELSE /\ error' = ""
            /\ isConverting' = TRUE
            /\ htmlFetch' = [stage |-> "direct", url |-> htmlUrl, overdue |-> FALSE]
    /\ effect' = NoEffect
    /\ UNCHANGED <<threadUrl, datUrl, posts, isDatOchi, htmlUrl,
                   datFetches, fileReads, results, call>>

\* handleHtmlConvert from "Convert HTML to DAT" to the end of the try block
HtmlConverted_PublishesAnyway(htmlText) ==
    LET converted == results.convertHtmlToDat[htmlText]
    IN  /\ effect' =
               (SavedFile(DownloadName(converted.threadKey), converted.datContent))
        /\ error' = IF converted.datContent = "" THEN HtmlParseFailedMessage ELSE ""
        /\ isConverting' = FALSE
        /\ posts' = results.parseHtmlPosts[htmlText]

HtmlConverted(htmlText) ==
    LET converted == results.convertHtmlToDat[htmlText]
    IN  IF converted.datContent = ""
        THEN /\ error' = HtmlParseFailedMessage
             /\ isConverting' = FALSE
             /\ effect' = NoEffect
             /\ UNCHANGED posts
        ELSE /\ effect' =
                    (SavedFile(DownloadName(converted.threadKey), converted.datContent))
             /\ error' = ""
             /\ isConverting' = FALSE
             /\ posts' = results.parseHtmlPosts[htmlText]

\* 30 seconds pass on a pending fetch(htmlUrl) or fetch(proxyUrl): neither is given a signal
\* and no timer is set, so the fetch stays pending
HtmlFetchOverdue ==
    /\ htmlFetch.stage # "none"
    /\ ~htmlFetch.overdue
    /\ htmlFetch' = [htmlFetch EXCEPT !.overdue = TRUE]
    /\ effect' = NoEffect
    /\ UNCHANGED <<threadUrl, datUrl, posts, error, isDatOchi, htmlUrl, isConverting,
                   datFetches, fileReads, results, call>>

\* the direct fetch answers ok and its body is read
DirectFetched(body) ==
    /\ htmlFetch.stage = "direct"
    /\ body \in HtmlBodies
    /\ htmlFetch' = NoFetch
    /\ HtmlConverted(HtmlText(body))
    /\ UNCHANGED <<threadUrl, datUrl, isDatOchi, htmlUrl, datFetches, fileReads, results, call>>

\* the direct fetch rejects, answers not ok or its body cannot be read: the inner catch
DirectFailed ==
    /\ htmlFetch.stage = "direct"
    /\ error' = TryingProxyMessage
    /\ htmlFetch' = [stage |-> "proxy", url |-> htmlFetch.url, overdue |-> FALSE]
    /\ effect' = NoEffect
    /\ UNCHANGED <<threadUrl, datUrl, posts, isDatOchi, htmlUrl, isConverting,
                   datFetches, fileReads, results, call>>

ProxyFetched(body) ==
    /\ htmlFetch.stage = "proxy"
    /\ body \in HtmlBodies
    /\ htmlFetch' = NoFetch
    /\ HtmlConverted(HtmlText(body))
    /\ UNCHANGED <<threadUrl, datUrl, isDatOchi, htmlUrl, datFetches, fileReads, results, call>>

\* ProxyFailed without the catch block's setIsConverting(false)
ProxyFailed_StaysConverting(message) ==
    /\ htmlFetch.stage = "proxy"
    /\ message \in {ProxyFailedMessage, FetchRejectedMessage}
    /\ error' = ErrorPrefix \o message
    /\ htmlFetch' = NoFetch
    /\ effect' = NoEffect
    /\ UNCHANGED <<threadUrl, datUrl, posts, isDatOchi, htmlUrl, isConverting,
                   datFetches, fileReads, results, call>>

\* the proxy answers not ok, or its fetch or body read rejects: the outer catch
ProxyFailed(message) ==
    /\ htmlFetch.stage = "proxy"
    /\ message \in {ProxyFailedMessage, FetchRejectedMessage}
    /\ error' = ErrorPrefix \o message
    /\ isConverting' = FALSE
    /\ htmlFetch' = NoFetch
    /\ effect' = NoEffect
    /\ UNCHANGED <<threadUrl, datUrl, posts, isDatOchi, htmlUrl,
                   datFetches, fileReads, results, call>>

\* handleFileUpload up to its await
handleFileUpload(file) ==
    /\ file \in FilesTried \cup {NoFile}
    /\ error' = ""
    /\ posts' = <<>>
    /\ IF file = NoFile THEN UNCHANGED fileReads
       ELSE /\ Len(fileReads) < MaxPending
            /\ fileReads' = Append(fileReads, file)
    /\ effect' = NoEffect
    /\ UNCHANGED <<threadUrl, datUrl, isDatOchi, htmlUrl, isConverting,
                   datFetches, htmlFetch, results, call>>

\* handleFileUpload from its await on: the file is read
FileParsed(k) ==
    /\ k \in 1..Len(fileReads)
    /\ fileReads' = RemoveAt(fileReads, k)
    /\ LET parsedPosts == results.parseDatFile[UploadText(fileReads[k])]
       IN  IF Len(parsedPosts) = 0
           THEN error' = DatParseFailedMessage /\ UNCHANGED posts
           ELSE posts' = parsedPosts /\ UNCHANGED error
    /\ effect' = NoEffect
    /\ UNCHANGED <<threadUrl, datUrl, isDatOchi, htmlUrl, isConverting,
                   datFetches, htmlFetch, results, call>>

\* file.arrayBuffer() rejects: catch
FileReadFailed(k) ==
    /\ k \in 1..Len(fileReads)
    /\ error' = FileReadFailedMessage
    /\ fileReads' = RemoveAt(fileReads, k)
    /\ effect' = NoEffect
    /\ UNCHANGED <<threadUrl, datUrl, posts, isDatOchi, htmlUrl, isConverting,
                   datFetches, htmlFetch, results, call>>

Next ==
    \/ setThreadUrl
    \/ setIsDatOchi
    \/ setHtmlUrl
    \/ handleConvert
    \/ handleDownload
    \/ \E k \in 1..MaxPending + 1 : DownloadSaved(k)
    \/ \E k \in 1..MaxPending + 1 : DownloadAborted(k)
    \/ \E k \in 1..MaxPending + 1 : DownloadFailed(k)
    \/ handleHtmlConvert
    \/ HtmlFetchOverdue
    \/ \E body \in HtmlBodies : DirectFetched(body)
    \/ DirectFailed
    \/ \E body \in HtmlBodies : ProxyFetched(body)
    \/ \E message \in {ProxyFailedMessage, FetchRejectedMessage} : ProxyFailed(message)
    \/ \E file \in FilesTried \cup {NoFile} : handleFileUpload(file)
    \/ \E k \in 1..MaxPending + 1 : FileParsed(k)
    \/ \E k \in 1..MaxPending + 1 : FileReadFailed(k)

Spec == Init /\ [][Next]_vars

\* the direct fetch of handleHtmlConvert settles: it resolves or rejects
DirectSettled == (\E body \in HtmlBodies : DirectFetched(body)) \/ DirectFailed

\* the proxy fetch settles
ProxySettled ==
    \/ \E body \in HtmlBodies : ProxyFetched(body)
    \/ \E message \in {ProxyFailedMessage, FetchRejectedMessage} : ProxyFailed(message)

\* the page when each fetch of handleHtmlConvert eventually resolves or rejects
LiveSpec == Spec /\ WF_vars(DirectSettled) /\ WF_vars(ProxySettled)

(***************************************************************************)
(* Claims about convertToDatUrl (UrlSpec)                                  *)
(***************************************************************************)
EndsWith(s, suffix) == MatchAt(s, Len(s) - Len(suffix) + 1, suffix)

\* a host of the form {server}.{root} with a non-empty server
HostUnder(host, root) == EndsWith(host, "." \o root) /\ Len(host) > Len(root) + 1

\* a host of the form {server}.{domain}: a dot with text on both sides
HostHasDot(host) == \E d \in 2..(Len(host) - 1) : Ch(host, d) = "."

\* the URL has the shape scheme://{server}.{domain}/test/read.cgi/{board}/{threadId}
ShapeOk(p) ==
    /\ p.scheme \in {"https://", "http://"}
    /\ HostHasDot(p.host)
    /\ p.path = "/test/read.cgi/"
    /\ p.board # ""
    /\ p.threadId # ""

\* the host and the path of an absolute URL
HostOfUrl(u) ==
    LET h == IndexOf(u, "://", 1) + 3
    IN  SubSeq(u, h, IndexOf(u, "/", h) - 1)
PathOfUrl(u) ==
    LET h == IndexOf(u, "://", 1) + 3
    IN  SubSeq(u, IndexOf(u, "/", h), Len(u))

Converted == call.fn = "convertToDatUrl"

\* C1: every URL accepted by convertToDatUrl(url, true) whose host is {server}.5ch.net or
\* {server}.bbspink.com gets the path /{board}/oyster/{id[0:4]}/{id}.dat, and every other
\* accepted URL gets /{board}/kako/{id[0:4]}/{id[0:5]}/{id}.dat.
C1_ArchivedPathByDomain ==
    (Converted /\ call.isDatOchi /\ ~call.ret.isNull) =>
        LET p == call.parts
            id == p.threadId
        IN  PathOfUrl(call.ret.val) =
                IF HostUnder(p.host, "5ch.net") \/ HostUnder(p.host, "bbspink.com")
                THEN "/" \o p.board \o "/oyster/" \o SubSeq(id, 1, 4) \o "/" \o id \o ".dat"
                ELSE "/" \o p.board \o "/kako/" \o SubSeq(id, 1, 4) \o "/"
                     \o SubSeq(id, 1, 5) \o "/" \o id \o ".dat"

\* C2: convertToDatUrl returns null, for either value of isDatOchi, whenever the URL does
\* not have the expected shape or its thread id has fewer than 5 characters; every call
\* returns (null or a URL), none throws.
C2_NullOnShortIdOrMismatch ==
    Converted =>
        /\ call.ret.isNull \in BOOLEAN
        /\ (~ShapeOk(call.parts) \/ Len(call.parts.threadId) < 5) => call.ret.isNull

C2_Witness_ShortId ==
    /\ Converted
    /\ ShapeOk(call.parts)
    /\ Len(call.parts.threadId) = 4
    /\ call.isDatOchi
    /\ call.ret.isNull

\* C3: for a URL of the expected shape with a thread id of at least 5 digits,
\* convertToDatUrl(url, false) returns a URL with the input's host and the path
\* /{board}/dat/{threadId}.dat.
C3_LiveDatUrl ==
    (Converted /\ ~call.isDatOchi /\ ShapeOk(call.parts) /\ Len(call.parts.threadId) >= 5) =>
        /\ ~call.ret.isNull
        /\ HostOfUrl(call.ret.val) = call.parts.host
        /\ PathOfUrl(call.ret.val) =
               "/" \o call.parts.board \o "/dat/" \o call.parts.threadId \o ".dat"

C3_Witness_Live ==
    /\ Converted
    /\ ~call.isDatOchi
    /\ call.url = "https://egg.5ch.net/test/read.cgi/news/1234567/l50"
    /\ call.ret = Some("https://egg.5ch.net/news/dat/1234567.dat")

(***************************************************************************)
(* Claims about parseDatFile and the dat layout (DatSpec)                  *)
(***************************************************************************)
Contains(s, lit) == IndexOf(s, lit, 1) > 0

PostFields(p) == {p.name, p.mail, p.date, p.id, p.message}

NoSeparatorInside(p) == \A f \in PostFields(p) : ~Contains(f, "<>")

RoundTripped == call.fn = "roundTrip"

\* C4, as stated: parsing the serialisation of any non-empty sequence of posts whose
\* fields contain no "<>" gives back the sequence.
C4_RoundTripAnyPosts ==
    (RoundTripped /\ call.posts # <<>>
        /\ \A k \in 1..Len(call.posts) : NoSeparatorInside(call.posts[k]))
    => call.ret = call.posts

\* a post the dat layout can carry unchanged: no field holds "<>" or a line feed, the name
\* is not empty, the date has no white space at either end and no "ID:" followed by a
\* non-white-space character, and the id holds no white space
RoundTrippable(p) ==
    /\ NoSeparatorInside(p)
    /\ \A f \in PostFields(p) : ~Contains(f, "\n")
    /\ p.name # ""
    /\ p.date = Trim(p.date)
    /\ \A i \in 1..Len(p.date) :
          MatchAt(p.date, i, "ID:") => (i + 3 > Len(p.date) \/ Ch(p.date, i + 3) \in WhiteSpace)
    /\ \A i \in 1..Len(p.id) : Ch(p.id, i) \notin WhiteSpace

\* C4, amended: parsing the serialisation of a non-empty sequence of posts that the dat
\* layout can carry unchanged gives back the sequence, field by field and in order.
C4_RoundTripCarriablePosts ==
    (RoundTripped /\ call.posts # <<>>
        /\ \A k \in 1..Len(call.posts) : RoundTrippable(call.posts[k]))
    => call.ret = call.posts

C4_Witness_TwoPosts ==
    /\ RoundTripped
    /\ Len(call.posts) = 2
    /\ \A k \in 1..2 : RoundTrippable(call.posts[k])
    /\ call.posts[1].id # ""
    /\ call.posts[2].id = ""
    /\ call.dat = "a<>sage<>d ID:i<>m<>\nn<<>><>2024/01/01(Mon) 00:00:00.00<><br>x<>\n"
    /\ call.ret = call.posts

\* the number of "<>" in a line (two occurrences cannot overlap)
SeparatorCount(line) == Cardinality({i \in 1..Len(line) : MatchAt(line, i, "<>")})

\* a line that is not blank and has at least 4 fields
AcceptedLine(line) == NotBlank(line) /\ SeparatorCount(line) + 1 >= 4

ParsedDat == call.fn = "parseDatFile"

\* C7: parseDatFile returns one post for each line that is not blank and has at least 4
\* fields, in the order of the lines, and nothing for any other line; so the empty text, a
\* blank text and a text whose lines all have fewer than 4 fields give no post.
C7_OnePostPerAcceptedLine ==
    ParsedDat =>
        LET accepted == SelectSeq(call.lines, AcceptedLine)
        IN  /\ Len(call.ret) = Len(accepted)
            /\ \A k \in 1..Len(accepted) :
                  /\ call.ret[k].mail = Split(accepted[k], "<>")[2]
                  /\ call.ret[k].message = Split(accepted[k], "<>")[4]
            /\ (Trim(call.content) = "") => call.ret = <<>>

C7_Witness_MixedLines ==
    /\ ParsedDat
    /\ call.content = "a<>b<>c\n<><>D ID:x y<>msg2\nn<>sage<>d ID:i<>msg1<>title\n"
    /\ Len(call.ret) = 2
    /\ call.ret[1].message = "msg2"
    /\ call.ret[2].message = "msg1"

(***************************************************************************)
(* Claims about stripTagsKeepBrA                                           *)
(***************************************************************************)
Stripped == call.fn = "stripTagsKeepBrA"

\* the tags of a text: every match of <[^>]+> that starts at a "<"
TagsOf(s) ==
    {SubSeq(s, i, PatternEnd("tag", s, i)) : i \in {j \in 1..Len(s) : PatternEnd("tag", s, j) > 0}}

IsBrOrAnchorTag(t) ==
    \/ t = "<br>"
    \/ t = "</a>"
    \/ MatchAt(t, 1, "<a href=\"") /\ EndsWith(t, "\">") /\ Len(t) >= 11

\* C6: the text stripTagsKeepBrA returns contains no markup tag other than <br> and the
\* tags of <a href="...">...</a> anchors.
C6_OnlyBrAndAnchorTags ==
    Stripped => \A t \in TagsOf(call.ret) : IsBrOrAnchorTag(t)

AllRegular(pieces) == \A k \in 1..Len(pieces) : pieces[k].kind # "raw"

\* what a piece of regular markup is to become: text stays, a line break becomes <br>, an
\* anchor keeps its href alone around its inner content, any other tag disappears
Normalised(piece) ==
    CASE piece.kind = "text" -> piece.src
      [] piece.kind = "br" -> "<br>"
      [] piece.kind = "anchor" -> "<a href=\"" \o piece.href \o "\">" \o piece.inner \o "</a>"
      [] piece.kind = "tag" -> ""

ConvertedHtml == call.fn = "convertHtmlToDat"

\* the record of one post, followed by a line feed
RecordLf(p) ==
    p.name \o "<>" \o p.mail \o "<>" \o p.date \o (IF p.id # "" THEN " ID:" \o p.id ELSE "")
        \o "<>" \o p.message \o "<>" \o "\n"

\* C9: the datContent of convertHtmlToDat is the records name<>mail<>date[ ID:id]<>message<>
\* of the parsed posts, in order, one LF after each of them, the " ID:id" part present
\* exactly for a non-empty id; without posts it is the empty string.
C9_DatContentLayout ==
    ConvertedHtml =>
        /\ call.ret.datContent = Concat([k \in 1..Len(call.posts) |-> RecordLf(call.posts[k])])
        /\ call.posts = <<>> => call.ret.datContent = ""

C9_Witness_TwoRecords ==
    /\ ConvertedHtml
    /\ Len(call.posts) = 2
    /\ call.posts[1].id # ""
    /\ call.posts[2].id = ""
    /\ call.ret.datContent = "Mr&X<>sage<>2024/01/01 ID:abc<>hi<br><a href=\"../5\">&gt;&gt;5</a><>\n"
                               \o "774<><>2024/01/02<>yo<>\n"

(***************************************************************************)
(* Claims about the page                                                   *)
(***************************************************************************)
\* C5: in every reachable state of the page every displayed post has a non-empty name,
\* whether posts was set from parseDatFile or from parseHtmlPosts.
C5_DisplayedNamesNonEmpty ==
    \A k \in 1..Len(posts) : posts[k].name # ""

\* a step in which a read file turns out to hold no post
UploadFindsNoPost ==
    \E k \in 1..Len(fileReads) :
        FileParsed(k) /\ Len(results.parseDatFile[UploadText(fileReads[k])]) = 0

\* a step in which a fetched page, direct or through the proxy, turns out to hold no post
ConversionFindsNoPost ==
    \E body \in HtmlBodies :
        /\ DirectFetched(body) \/ ProxyFetched(body)
        /\ Len(results.parseHtmlPosts[HtmlText(body)]) = 0

\* C8: the step in which a dat file upload or an HTML conversion finds zero posts sets a
\* non-empty error and publishes nothing: it writes no posts and saves no file, the only
\* write of that upload to posts being the empty list of its first step, and it is the
\* operation's last step (the conversion is no longer in progress).
C8_ZeroPostsEndInErrorOnly ==
    [][/\ UploadFindsNoPost =>
            error' # "" /\ posts' = posts /\ effect' = NoEffect
       /\ ConversionFindsNoPost =>
            /\ error' # ""
            /\ posts' = posts
            /\ effect' = NoEffect
            /\ ~isConverting' /\ htmlFetch' = NoFetch
       /\ (\E file \in FilesTried \cup {NoFile} : handleFileUpload(file)) => posts' = <<>>]_vars

C8_Witness_ZeroPostUpload ==
    /\ error = DatParseFailedMessage
    /\ posts = <<>>
    /\ effect = NoEffect
    /\ fileReads = <<>>
    /\ ~isConverting

(***************************************************************************)
(* Claims about extractThreadKey                                           *)
(***************************************************************************)
KeyCalled == call.fn = "extractThreadKey"

\* the document has a <link rel="canonical" href="..."> element
HasCanonicalLink(doc) == doc.kind \in {"canonical", "upper"}

\* the href is .../read.cgi/{board}/{digits}/...
IsThreadPath(href) ==
    /\ href.id # ""
    /\ \A i \in 1..Len(href.id) : Ch(href.id, i) \in Digit
    /\ href.tail # ""

\* C11: for a document whose canonical link is .../read.cgi/{board}/{digits}/ extractThreadKey
\* returns the digits and the download is named {digits}.dat; for a document without a
\* canonical link it returns the empty string and the download is named thread.dat.
C11_ThreadKeyNamesDownload ==
    KeyCalled =>
        /\ HasCanonicalLink(call.doc) /\ IsThreadPath(call.doc.href) =>
               call.ret = call.doc.href.id /\ call.download = call.doc.href.id \o ".dat"
        /\ call.doc.kind \in {"none", "stylesheet"} =>
               call.ret = "" /\ call.download = "thread.dat"

C11_Witness_KeyFromCanonical ==
    /\ KeyCalled
    /\ call.htmlText = "<a href=\"/test/read.cgi/b/999/\">x</a>"
                         \o "<link rel=\"canonical\" href=\"https://a.5ch.net/test/read.cgi/4649/123456789/\">"
                         \o "</head><body></body></html>"
    /\ call.ret = "123456789"
    /\ call.download = "123456789.dat"

(***************************************************************************)
(* Claims about the decoding of byte buffers                               *)
(***************************************************************************)
\* the source encoding the specification gives for a detection result
StatedEncoding(detectedEncoding) ==
    IF detectedEncoding \in {"SJIS", "EUCJP"} THEN detectedEncoding ELSE "SJIS"

\* a step that ends an HTML fetch converts the body decoded from the stated encoding
HtmlPathsDecodeAsStated ==
    \A body \in HtmlBodies :
        DirectFetched(body) \/ ProxyFetched(body) =>
            HtmlConverted(Decode(body, StatedEncoding(body.detected)))

\* a step that ends a file read shows the posts of the file decoded from the stated encoding
UploadDecodesAsStated ==
    \A k \in 1..Len(fileReads) :
        FileParsed(k) =>
            LET stated == parseDatFile(Decode(fileReads[k], StatedEncoding(fileReads[k].detected)))
            IN  IF Len(stated) = 0 THEN posts' = posts ELSE posts' = stated

\* C12: the dat file upload and both HTML fetch paths decode a buffer from the detected
\* encoding when it is ShiftJIS or EUC-JP and from ShiftJIS for any other detection result.
C12_DecodeFromDetectedOrSjis ==
    [][HtmlPathsDecodeAsStated /\ UploadDecodesAsStated]_vars

(***************************************************************************)
(* Claims about timeouts                                                   *)
(***************************************************************************)
\* C13: no retrieval is still pending 30 seconds after it started: the dat download and the
\* HTML fetches are cancelled by then; the cancelled retrieval ends with the timeout message
\* and opens no tab, and a retrieval that fails otherwise never reports the timeout message.
C13_TimeoutCancelsEveryRetrieval ==
    /\ [](htmlFetch.stage # "none" => ~htmlFetch.overdue)
    /\ [][/\ \A k \in 1..Len(datFetches) :
                /\ DownloadAborted(k) => error' = TimeoutMessage /\ effect' = NoEffect
                /\ DownloadFailed(k) => error' # TimeoutMessage
          /\ DirectFailed => error' # TimeoutMessage
          /\ (\E message \in {ProxyFailedMessage, FetchRejectedMessage} : ProxyFailed(message))
                => error' # TimeoutMessage]_vars

(***************************************************************************)
(* Claims about the fields of a parsed dat record                          *)
(***************************************************************************)
RecordParsed == call.fn = "parseDatFile(record)"

\* C14: an accepted dat line gives one post whose id is the non-white-space run after the
\* first ID: of field 2 that has one ("" when there is none), whose date is field 2 without
\* that ID:<run>, trimmed, whose mail is field 1 unchanged and whose name is field 0, the
\* placeholder standing in only for the empty string (a white-space-only name is kept).
C14_FieldsOfAcceptedLine ==
    RecordParsed =>
        /\ Len(call.ret) = 1
        /\ call.ret[1].id = call.record.run
        /\ call.ret[1].date = Trim(call.record.before \o call.record.after)
        /\ call.ret[1].mail = call.record.mail
        /\ call.ret[1].name = (IF call.record.name = "" THEN DefaultName ELSE call.record.name)
        /\ call.ret[1].message = "msg"

C14_Witness_BlankNameKept ==
    /\ RecordParsed
    /\ call.content = " <> sage <>xID:\tID:abc BE:1 ID:q<>msg<>title<>"
    /\ call.ret = <<Post(" ", " sage ", "xID:\t BE:1 ID:q", "abc", "msg")>>

(***************************************************************************)
(* Claims about isConverting                                               *)
(***************************************************************************)
\* C15: when each fetch eventually resolves or rejects, a conversion in progress is
\* eventually no longer in progress, whichever way it ends; and handleHtmlConvert with an
\* empty htmlUrl sets an error and leaves isConverting as it is, starting no fetch.
C15_ConvertingEventuallyEnds ==
    /\ isConverting ~> ~isConverting
    /\ [][handleHtmlConvert /\ htmlUrl = "" =>
              error' = EnterUrlMessage /\ isConverting' = isConverting /\ htmlFetch' = htmlFetch]_vars

\* a conversion went to the proxy, which failed, and is over
C15_Witness_EndedAfterProxyFailure ==
    /\ ~isConverting
    /\ error = ErrorPrefix \o ProxyFailedMessage
    /\ htmlFetch = NoFetch

(***************************************************************************)
(* Claims about handleConvert                                              *)
(***************************************************************************)
\* C16: a step of handleConvert leaves exactly one of datUrl and error non-empty: datUrl is
\* the result of convertToDatUrl(threadUrl, isDatOchi) and error is empty when it succeeds,
\* datUrl is empty and error is the invalid-URL message otherwise; and a step of
\* handleDownload taken right after a failed conversion starts no fetch and changes nothing.
C16_ConvertSetsDatUrlOrError ==
    [][/\ handleConvert =>
            LET converted == convertToDatUrl(threadUrl, isDatOchi)
            IN  /\ (datUrl' # "") # (error' # "")
                /\ IF converted.isNull
                   THEN datUrl' = "" /\ error' = InvalidUrlMessage
                   ELSE datUrl' = converted.val /\ error' = ""
       /\ handleDownload /\ datUrl = "" /\ error = InvalidUrlMessage =>
            /\ datFetches' = datFetches
            /\ effect' = NoEffect
            /\ UNCHANGED <<threadUrl, datUrl, posts, error, isDatOchi, htmlUrl, isConverting,
                           htmlFetch, fileReads>>]_vars

\* a conversion failed after an earlier one had succeeded and its download had been started
C16_Witness_DatUrlReset ==
    /\ threadUrl = "5ch.net/123"
    /\ datUrl = ""
    /\ error = InvalidUrlMessage
    /\ datFetches = <<"https://egg.5ch.net/news/dat/1234567890.dat">>

====
